---- MODULE Spec2Model ----
(***************************************************************************)
(* Model of custom_components/tuya_local_ble/lock.py: the TuyaBLELock      *)
(* entity (command issuance, state reconciliation, derived properties)     *)
(* and its keep-alive thread.                                              *)
(*                                                                         *)
(* Python Optional[T] values are sequences of length at most one:          *)
(* None is << >> and a value v is << v >>.  Time is counted in whole       *)
(* seconds.  Handlers that run on the event loop without awaiting          *)
(* (_set_lock_state, _handle_coordinator_update) are single actions; the   *)
(* keep-alive loop runs in its own thread and is a separate action.        *)
(***************************************************************************)
EXTENDS Integers, Sequences, FiniteSets, TLC

VARIABLES
    clock,              \* datetime.now() / wall time, in seconds
    mapping,            \* the TuyaBLELockMapping given to __init__
    ctor,               \* position of __init__ : "keep_connect", "get_or_create", "done"
    alive,              \* the entity has not been removed from the host
    datapoints,         \* device.datapoints : dp id -> Optional[bool] value
    _current_state,     \* Optional[bool], True = locked
    _target_state,      \* Optional[bool]
    _commanded,         \* bool
    _commanded_timer,   \* Optional[datetime]
    _datapoint_nop,     \* Optional[datapoint handle (its id)]
    _isjammed,          \* bool
    attrs,              \* the _attr_* fields as last written out by async_write_ha_state
    thread,             \* the Timer thread: "none", "timer" (waiting to fire), "sleep"
    thread_wake,        \* time at which the Timer fires / time.sleep returns
    last_task,          \* Optional[the task most recently given to hass.create_task]
    nop_writes,         \* number of set_value(True) tasks the keep-alive loop created
    lastOp,             \* history: the last command or report processed
    prevOp,             \* history: the one before it
    running             \* Optional[a _set_lock_state coroutine between its write and its end]

vars == << clock, mapping, ctor, alive, datapoints, _current_state, _target_state,
           _commanded, _commanded_timer, _datapoint_nop, _isjammed, attrs,
           thread, thread_wake, last_task, nop_writes, lastOp, prevOp, running >>

lockVars == << _current_state, _target_state, _commanded, _commanded_timer, _isjammed >>

(* ------------------------------ bounds --------------------------------- *)

MaxTime == 14
MaxKeepConnectTimer == 2

(* ----------------------------- constants ------------------------------- *)

dp_id_unlock == 6
dp_id_lock == 46
dp_id == 47
dp_id_nop == 52
JammedAfterSeconds == 12

DpIds == { dp_id_unlock, dp_id_lock, dp_id, dp_id_nop }

None == << >>
Some(v) == << v >>

(* --------------------------- datapoint store --------------------------- *)

\* device.datapoints.get_or_create(id, DT_BOOL, default): creates the
\* datapoint with the default value if it is absent, otherwise leaves it.
get_or_create(dps, id, default) ==
    IF dps[id] = None THEN [dps EXCEPT ![id] = Some(default)] ELSE dps

\* datapoint.set_value(True) wrapped in hass.create_task: fire and forget.
create_task(id, value) == Some([dp |-> id, value |-> value])

(* ------------------------- derived properties -------------------------- *)

\* A bug that reports an unknown state as unlocked.
is_locked_bool(cs) == Some(cs = Some(TRUE))

is_locked(cs) == cs

is_locking(cs, ts, commanded) ==
    cs = Some(FALSE) /\ ts = Some(TRUE) /\ commanded

is_unlocking(cs, ts, commanded) ==
    cs = Some(TRUE) /\ ts = Some(FALSE) /\ commanded

is_jammed(jammed) == jammed

\* _update_attrs followed by async_write_ha_state: the values observers see.
_update_attrs(cs, ts, commanded, jammed) ==
    [ is_locking   |-> is_locking(cs, ts, commanded),
      is_unlocking |-> is_unlocking(cs, ts, commanded),
      is_locked    |-> is_locked(cs),
      is_jammed    |-> is_jammed(jammed) ]

(* --------------------------- construction ------------------------------ *)

\* History records: the operation, its argument, _current_state and
\* _commanded before it ran, and (for a command) the time of the call.
NoOp == [ op |-> "none", arg |-> FALSE, cs |-> None, pending |-> FALSE, at |-> 0 ]

Call(want_locked) ==
    [ op |-> "requestLock", arg |-> want_locked, cs |-> _current_state,
      pending |-> _commanded, at |-> clock ]

Report(value) ==
    [ op |-> "report", arg |-> value, cs |-> _current_state,
      pending |-> _commanded, at |-> 0 ]

\* The interval is read only when keep_connect is set; without it one
\* value stands for all of them.
Mappings ==
    { m \in [ keep_connect : BOOLEAN, keep_connect_timer : 1..MaxKeepConnectTimer ] :
          m.keep_connect \/ m.keep_connect_timer = 1 }

\* __init__ up to and including the first _update_attrs().
Init ==
    /\ clock = 0
    /\ mapping \in Mappings
    /\ ctor = "keep_connect"
    /\ alive = TRUE
    /\ datapoints = [ id \in DpIds |-> None ]
    /\ _current_state = None
    /\ _target_state = None
    /\ _commanded = FALSE
    /\ _commanded_timer = None
    /\ _datapoint_nop = None
    /\ _isjammed = FALSE
    /\ attrs = _update_attrs(None, None, FALSE, FALSE)
    /\ thread = "none"
    /\ thread_wake = 0
    /\ last_task = None
    /\ nop_writes = 0
    /\ lastOp = NoOp
    /\ prevOp = NoOp
    /\ running = None

\* A bug that tests the interval instead of the flag.
keep_connect_by_timer(m) == m.keep_connect_timer > 0

\* if mapping.keep_connect:
keep_connect(m) == m.keep_connect

\* Timer(keep_connect_timer, send_nop_request).start()
init_keep_connect ==
    /\ ctor = "keep_connect"
    /\ IF keep_connect(mapping)
       THEN /\ thread' = "timer"
            /\ thread_wake' = clock + mapping.keep_connect_timer
            /\ ctor' = "get_or_create"
       ELSE /\ ctor' = "done"
            /\ UNCHANGED << thread, thread_wake >>
    /\ UNCHANGED << clock, mapping, running, alive, datapoints, lockVars, _datapoint_nop,
                    attrs, last_task, nop_writes, lastOp, prevOp >>

\* self._datapoint_nop = device.datapoints.get_or_create(dp_id_nop, DT_BOOL, False)
init_get_or_create ==
    /\ ctor = "get_or_create"
    /\ datapoints' = get_or_create(datapoints, dp_id_nop, FALSE)
    /\ _datapoint_nop' = Some(dp_id_nop)
    /\ ctor' = "done"
    /\ UNCHANGED << clock, mapping, running, alive, lockVars, attrs, thread, thread_wake,
                    last_task, nop_writes, lastOp, prevOp >>

(* ----------------------------- keep-alive ------------------------------ *)

\* A bug that sleeps one second too long.
nop_sleep_drift(m) == m.keep_connect_timer + 1

\* The delay until the loop body runs again: time.sleep(keep_connect_timer).
nop_sleep(m) == m.keep_connect_timer

\* A variant in which the keep-alive loop also declares the jam when the
\* deadline of a pending command has passed.
send_nop_request_checks_jam ==
    /\ thread \in { "timer", "sleep" }
    /\ clock = thread_wake
    /\ IF _datapoint_nop # None
       THEN /\ last_task' = create_task(_datapoint_nop[1], TRUE)
            /\ nop_writes' = nop_writes + 1
       ELSE UNCHANGED << last_task, nop_writes >>
    /\ IF /\ _commanded
          /\ _commanded_timer # None
          /\ clock > _commanded_timer[1] + JammedAfterSeconds
       THEN _isjammed' = TRUE /\ _commanded' = FALSE
       ELSE UNCHANGED << _isjammed, _commanded >>
    /\ thread' = "sleep"
    /\ thread_wake' = clock + mapping.keep_connect_timer
    /\ UNCHANGED << clock, mapping, running, ctor, alive, datapoints, _current_state,
                    _target_state, _commanded_timer, _datapoint_nop, attrs,
                    lastOp, prevOp >>

\* One firing of the Timer / one iteration of the while True loop.  The
\* loop has no exit: it runs whether or not the entity is still alive.
send_nop_request ==
    /\ thread \in { "timer", "sleep" }
    /\ clock = thread_wake
    /\ IF _datapoint_nop # None
       THEN /\ last_task' = create_task(_datapoint_nop[1], TRUE)
            /\ nop_writes' = nop_writes + 1
       ELSE UNCHANGED << last_task, nop_writes >>
    /\ thread' = "sleep"
    /\ thread_wake' = clock + nop_sleep(mapping)
    /\ UNCHANGED << clock, mapping, running, ctor, alive, datapoints, lockVars,
                    _datapoint_nop, attrs, lastOp, prevOp >>

(* ------------------------------ commands ------------------------------- *)

\* A bug that ignores a command while another one is pending.
_set_lock_state_unless_pending(want_locked) ==
    /\ ctor = "done"
    /\ alive
    /\ LET id == IF want_locked THEN dp_id_lock ELSE dp_id_unlock
       IN  /\ _target_state' = IF _commanded THEN _target_state ELSE Some(want_locked)
           /\ attrs' = _update_attrs(_current_state, _target_state',
                                     _commanded, _isjammed)
           /\ datapoints' = get_or_create(datapoints, id, FALSE)
           /\ last_task' = create_task(id, TRUE)
    /\ _commanded' = TRUE
    /\ _commanded_timer' = IF _commanded THEN _commanded_timer ELSE Some(clock)
    /\ prevOp' = lastOp
    /\ lastOp' = Call(want_locked)
    /\ UNCHANGED << clock, mapping, running, ctor, alive, _current_state, _isjammed,
                    _datapoint_nop, thread, thread_wake, nop_writes >>

\* A bug that drives one command datapoint with the wanted value.
_set_lock_state_one_dp(want_locked) ==
    /\ ctor = "done"
    /\ alive
    /\ LET id == dp_id_lock
       IN  /\ _target_state' = Some(want_locked)
           /\ attrs' = _update_attrs(_current_state, Some(want_locked),
                                     _commanded, _isjammed)
           /\ datapoints' = get_or_create(datapoints, id, FALSE)
           /\ last_task' = create_task(id, want_locked)
    /\ _commanded' = TRUE
    /\ _commanded_timer' = Some(clock)
    /\ prevOp' = lastOp
    /\ lastOp' = Call(want_locked)
    /\ UNCHANGED << clock, mapping, running, ctor, alive, _current_state, _isjammed,
                    _datapoint_nop, thread, thread_wake, nop_writes >>

\* A bug that takes the wanted state for the current one at once.
_set_lock_state_optimistic(want_locked) ==
    /\ ctor = "done"
    /\ alive
    /\ LET id == IF want_locked THEN dp_id_lock ELSE dp_id_unlock
       IN  /\ _target_state' = Some(want_locked)
           /\ attrs' = _update_attrs(_current_state, Some(want_locked),
                                     _commanded, _isjammed)
           /\ datapoints' = get_or_create(datapoints, id, FALSE)
           /\ last_task' = create_task(id, TRUE)
    /\ _commanded' = TRUE
    /\ _commanded_timer' = Some(clock)
    /\ _current_state' = Some(want_locked)
    /\ prevOp' = lastOp
    /\ lastOp' = Call(want_locked)
    /\ UNCHANGED << clock, mapping, running, ctor, alive, _isjammed,
                    _datapoint_nop, thread, thread_wake, nop_writes >>

\* A bug that does not record the time of the command.
_set_lock_state_no_stamp(want_locked) ==
    /\ ctor = "done"
    /\ alive
    /\ LET id == IF want_locked THEN dp_id_lock ELSE dp_id_unlock
       IN  /\ _target_state' = Some(want_locked)
           /\ attrs' = _update_attrs(_current_state, Some(want_locked),
                                     _commanded, _isjammed)
           /\ datapoints' = get_or_create(datapoints, id, FALSE)
           /\ last_task' = create_task(id, TRUE)
    /\ _commanded' = TRUE
    /\ _commanded_timer' = _commanded_timer
    /\ prevOp' = lastOp
    /\ lastOp' = Call(want_locked)
    /\ UNCHANGED << clock, mapping, running, ctor, alive, _current_state, _isjammed,
                    _datapoint_nop, thread, thread_wake, nop_writes >>

\* async_lock / async_unlock -> _set_lock_state(want_locked); no await inside.
\* _update_attrs and async_write_ha_state run before _commanded is assigned,
\* so the attributes are computed from the old value of _commanded.
_set_lock_state(want_locked) ==
    /\ ctor = "done"
    /\ alive
    /\ LET id == IF want_locked THEN dp_id_lock ELSE dp_id_unlock
       IN  /\ _target_state' = Some(want_locked)
           /\ attrs' = _update_attrs(_current_state, Some(want_locked),
                                     _commanded, _isjammed)
           /\ datapoints' = get_or_create(datapoints, id, FALSE)
           /\ last_task' = create_task(id, TRUE)
    /\ _commanded' = TRUE
    /\ _commanded_timer' = Some(clock)
    /\ prevOp' = lastOp
    /\ lastOp' = Call(want_locked)
    /\ UNCHANGED << clock, mapping, running, ctor, alive, _current_state, _isjammed,
                    _datapoint_nop, thread, thread_wake, nop_writes >>

(* --------------------------- reconciliation ---------------------------- *)

\* A bug that takes the raw value as it is.
map_status_direct(value) == Some(value)

\* True -> UNLOCKED, False -> LOCKED
map_status(value) == Some(~value)

\* A bug in the unit of the timeout: minutes instead of seconds.
timed_out_minutes(timer, now) ==
    /\ timer # None
    /\ now > timer[1] + 60 * JammedAfterSeconds

\* A bug that declares the jam already at the deadline itself.
timed_out_at_deadline(timer, now) ==
    /\ timer # None
    /\ now >= timer[1] + JammedAfterSeconds

\* _commanded_timer and datetime.now() > _commanded_timer + timedelta(seconds=12)
timed_out(timer, now) ==
    /\ timer # None
    /\ now > timer[1] + JammedAfterSeconds

\* target reached (or no target): the else branch of the mismatch test
satisfied(cs, ts) == ~(ts # None /\ cs # ts)

\* A bug that runs the jam logic for every report, pending command or not.
reconcile_unguarded(value, ts, commanded, timer, jammed, now) ==
    LET cs == map_status(value)
    IN  IF ~satisfied(cs, ts)
        THEN IF timed_out(timer, now)
             THEN [ cs |-> cs, commanded |-> FALSE, jammed |-> TRUE ]
             ELSE [ cs |-> cs, commanded |-> commanded, jammed |-> jammed ]
        ELSE [ cs |-> cs, commanded |-> FALSE, jammed |-> FALSE ]

\* A bug that never stops waiting: _commanded is not reset.
reconcile_keeps_pending(value, ts, commanded, timer, jammed, now) ==
    LET cs == map_status(value)
    IN  IF commanded
        THEN IF ~satisfied(cs, ts)
             THEN IF timed_out(timer, now)
                  THEN [ cs |-> cs, commanded |-> commanded, jammed |-> TRUE ]
                  ELSE [ cs |-> cs, commanded |-> commanded, jammed |-> jammed ]
             ELSE [ cs |-> cs, commanded |-> commanded, jammed |-> FALSE ]
        ELSE [ cs |-> cs, commanded |-> commanded, jammed |-> jammed ]

\* A variant that lets a report that shows the target clear the jam also
\* when no command is pending.
reconcile_recovers(value, ts, commanded, timer, jammed, now) ==
    LET cs == map_status(value)
    IN  IF commanded
        THEN IF ~satisfied(cs, ts)
             THEN IF timed_out(timer, now)
                  THEN [ cs |-> cs, commanded |-> FALSE, jammed |-> TRUE ]
                  ELSE [ cs |-> cs, commanded |-> commanded, jammed |-> jammed ]
             ELSE [ cs |-> cs, commanded |-> FALSE, jammed |-> FALSE ]
        ELSE [ cs |-> cs, commanded |-> commanded,
               jammed |-> jammed /\ ~(ts # None /\ cs = ts) ]

\* The body of update_device_state once the status datapoint is found:
\* returns the new (_current_state, _commanded, _isjammed).
reconcile(value, ts, commanded, timer, jammed, now) ==
    LET cs == map_status(value)
    IN  IF commanded
        THEN IF ~satisfied(cs, ts)
             THEN IF timed_out(timer, now)
                  THEN [ cs |-> cs, commanded |-> FALSE, jammed |-> TRUE ]
                  ELSE [ cs |-> cs, commanded |-> commanded, jammed |-> jammed ]
             ELSE [ cs |-> cs, commanded |-> FALSE, jammed |-> FALSE ]
        ELSE [ cs |-> cs, commanded |-> commanded, jammed |-> jammed ]

\* update_device_state(); _update_attrs(); async_write_ha_state()
\* run against the store content dps.
handle_update(dps) ==
    /\ datapoints' = dps
    /\ IF dps[dp_id] # None
       THEN LET r == reconcile(dps[dp_id][1], _target_state, _commanded,
                               _commanded_timer, _isjammed, clock)
            IN  /\ _current_state' = r.cs
                /\ _commanded' = r.commanded
                /\ _isjammed' = r.jammed
                /\ prevOp' = lastOp
                /\ lastOp' = Report(dps[dp_id][1])
       ELSE UNCHANGED << _current_state, _commanded, _isjammed, lastOp, prevOp >>
    /\ attrs' = _update_attrs(_current_state', _target_state, _commanded', _isjammed')
    /\ UNCHANGED << clock, mapping, running, ctor, alive, _target_state, _commanded_timer,
                    _datapoint_nop, thread, thread_wake, last_task, nop_writes >>

\* The device reports a value of the status datapoint; the coordinator
\* then calls _handle_coordinator_update.
onStatusReport(value) ==
    /\ ctor = "done"
    /\ alive
    /\ handle_update([datapoints EXCEPT ![dp_id] = Some(value)])

\* A coordinator update for any other reason: the handler re-reads the
\* status datapoint as it is.
_handle_coordinator_update ==
    /\ ctor = "done"
    /\ alive
    /\ handle_update(datapoints)

(* ----------------------------- environment ----------------------------- *)

\* One second passes.  Construction takes no time, and a thread whose
\* Timer / sleep has expired runs before the clock moves on.
Tick ==
    /\ ctor = "done"
    /\ clock < MaxTime
    /\ thread = "none" \/ clock < thread_wake
    /\ clock' = clock + 1
    /\ UNCHANGED << mapping, running, ctor, alive, datapoints, lockVars, _datapoint_nop,
                    attrs, thread, thread_wake, last_task, nop_writes, lastOp, prevOp >>

\* The entity is removed from the host.  The class defines no removal hook
\* and nothing stops the Timer thread.
Teardown ==
    /\ ctor = "done"
    /\ alive
    /\ alive' = FALSE
    /\ UNCHANGED << clock, mapping, running, ctor, datapoints, lockVars, _datapoint_nop,
                    attrs, thread, thread_wake, last_task, nop_writes, lastOp, prevOp >>

Next ==
    \/ init_keep_connect
    \/ init_get_or_create
    \/ send_nop_request
    \/ \E want_locked \in BOOLEAN : _set_lock_state(want_locked)
    \/ \E value \in BOOLEAN : onStatusReport(value)
    \/ _handle_coordinator_update
    \/ Tick
    \/ Teardown

Spec == Init /\ [][Next]_vars

\* The entity while it lives: it is never removed, time goes on, a thread
\* that is due runs, and the device keeps sending status reports.
NextLive ==
    \/ init_keep_connect
    \/ init_get_or_create
    \/ send_nop_request
    \/ \E want_locked \in BOOLEAN : _set_lock_state(want_locked)
    \/ \E value \in BOOLEAN : onStatusReport(value)
    \/ _handle_coordinator_update
    \/ Tick

Fairness ==
    /\ WF_vars(Tick)
    /\ WF_vars(send_nop_request)
    /\ WF_vars(\E value \in BOOLEAN : onStatusReport(value))

SpecFair == Init /\ [][NextLive]_vars /\ Fairness

(* ----------------------------- event loop ------------------------------ *)

(***************************************************************************)
(* Spec takes _set_lock_state as one step.  SpecLoop justifies that: it    *)
(* runs the coroutine in two steps, up to the write (lines 195-208) and    *)
(* from there to its end (209-210), and lets the event loop run another    *)
(* callback in between only if the coroutine has suspended there.          *)
(***************************************************************************)

\* A variant that awaits the write: await datapoint.set_value(True).
write_awaited == TRUE

\* The write is handed to hass.create_task and not awaited: the coroutine
\* does not suspend.
write_suspends == FALSE

\* The event loop is free to run a callback.
LoopFree == IF running = None THEN TRUE ELSE running[1].suspended

\* _set_lock_state from its start up to the write.
_set_lock_state_begin(want_locked) ==
    /\ ctor = "done"
    /\ alive
    /\ running = None
    /\ LET id == IF want_locked THEN dp_id_lock ELSE dp_id_unlock
       IN  /\ _target_state' = Some(want_locked)
           /\ attrs' = _update_attrs(_current_state, Some(want_locked),
                                     _commanded, _isjammed)
           /\ datapoints' = get_or_create(datapoints, id, FALSE)
           /\ last_task' = create_task(id, TRUE)
    /\ running' = Some([ want_locked |-> want_locked, suspended |-> write_suspends ])
    /\ UNCHANGED << clock, mapping, ctor, alive, _current_state, _commanded,
                    _commanded_timer, _isjammed, _datapoint_nop, thread,
                    thread_wake, nop_writes, lastOp, prevOp >>

\* _set_lock_state from after the write to its end.
_set_lock_state_end ==
    /\ running # None
    /\ _commanded' = TRUE
    /\ _commanded_timer' = Some(clock)
    /\ prevOp' = lastOp
    /\ lastOp' = Call(running[1].want_locked)
    /\ running' = None
    /\ UNCHANGED << clock, mapping, ctor, alive, datapoints, _current_state,
                    _target_state, _isjammed, _datapoint_nop, attrs, thread,
                    thread_wake, last_task, nop_writes >>

\* The callbacks and the environment, as the event loop admits them.
loop_onStatusReport(value) == LoopFree /\ onStatusReport(value)

loop_handle_coordinator_update == LoopFree /\ _handle_coordinator_update

loop_Tick == running = None /\ Tick

loop_Teardown == running = None /\ Teardown

NextLoop ==
    \/ init_keep_connect
    \/ init_get_or_create
    \/ send_nop_request
    \/ \E want_locked \in BOOLEAN : _set_lock_state_begin(want_locked)
    \/ _set_lock_state_end
    \/ \E value \in BOOLEAN : loop_onStatusReport(value)
    \/ loop_handle_coordinator_update
    \/ loop_Tick
    \/ loop_Teardown

SpecLoop == Init /\ [][NextLoop]_vars

TypeOK ==
    /\ clock \in 0..MaxTime
    /\ mapping \in Mappings
    /\ ctor \in { "keep_connect", "get_or_create", "done" }
    /\ alive \in BOOLEAN
    /\ _current_state \in { None, Some(TRUE), Some(FALSE) }
    /\ _target_state \in { None, Some(TRUE), Some(FALSE) }
    /\ _commanded \in BOOLEAN
    /\ _isjammed \in BOOLEAN
    /\ thread \in { "none", "timer", "sleep" }

(* ------------------------------- claims -------------------------------- *)

\* This step is a reconciliation pass that reads the raw status value.
Pass(value) ==
    \/ onStatusReport(value)
    \/ _handle_coordinator_update /\ datapoints[dp_id] = Some(value)

PassStep == \E value \in BOOLEAN : Pass(value)

Deadline == _commanded_timer[1] + JammedAfterSeconds

\* C1: a command issued while the lock is in the opposite state sets the
\* target, marks the command pending and shows locking / unlocking; the
\* next report, if it shows the wanted state and comes within the timeout,
\* ends the command without a jam and shows the lock in the wanted state.
C1_Call ==
    \A w \in BOOLEAN :
        (_set_lock_state(w) /\ _current_state = Some(~w)) =>
            /\ _target_state' = Some(w)
            /\ _commanded'
            /\ IF w THEN is_locking(_current_state', _target_state', _commanded')
                    ELSE is_unlocking(_current_state', _target_state', _commanded')

C1_Report ==
    \A w \in BOOLEAN :
        ( /\ PassStep
          /\ lastOp.op = "requestLock" /\ lastOp.arg = w /\ lastOp.cs = Some(~w)
          /\ clock <= lastOp.at + JammedAfterSeconds
          /\ _current_state' = Some(w) ) =>
            /\ ~_commanded'
            /\ ~_isjammed'
            /\ is_locked(_current_state') = Some(w)
            /\ ~is_locking(_current_state', _target_state', _commanded')
            /\ ~is_unlocking(_current_state', _target_state', _commanded')
            /\ attrs' = [ is_locking |-> FALSE, is_unlocking |-> FALSE,
                          is_locked |-> Some(w), is_jammed |-> FALSE ]

C1_HappyPath == [][C1_Call /\ C1_Report]_vars

C1_Witness ==
    /\ prevOp.op = "requestLock" /\ prevOp.arg = TRUE /\ prevOp.cs = Some(FALSE)
    /\ lastOp.op = "report" /\ lastOp.arg = FALSE /\ lastOp.pending
    /\ clock <= prevOp.at + JammedAfterSeconds
    /\ _current_state = Some(TRUE)
    /\ ~_commanded

\* C2: a reconciliation pass for a pending command that runs later than
\* the deadline and finds the target not reached declares the jam and
\* stops waiting.
C2_JamTimeout ==
    [][ ( /\ PassStep
          /\ _commanded
          /\ _commanded_timer # None /\ clock > Deadline
          /\ _target_state # None /\ _current_state' # _target_state ) =>
            (_isjammed' /\ ~_commanded') ]_vars

C2_Witness ==
    /\ lastOp.op = "report" /\ lastOp.pending
    /\ prevOp.op = "requestLock"
    /\ clock = prevOp.at + JammedAfterSeconds + 1
    /\ _current_state # _target_state
    /\ _isjammed
    /\ ~_commanded

\* C3: a reconciliation pass for a pending command that runs no later than
\* the deadline and finds the target not reached changes neither the
\* pending flag nor the jam flag.
C3_NoFalseJam ==
    [][ ( /\ PassStep
          /\ _commanded
          /\ _commanded_timer # None /\ clock <= Deadline
          /\ _target_state # None /\ _current_state' # _target_state ) =>
            (_commanded' /\ _isjammed' = _isjammed) ]_vars

C3_Witness ==
    /\ lastOp.op = "report" /\ lastOp.pending
    /\ prevOp.op = "requestLock"
    /\ clock = prevOp.at + JammedAfterSeconds
    /\ _current_state # _target_state
    /\ _commanded
    /\ ~_isjammed

\* C4: a report processed while no command is pending changes nothing but
\* the current state, however long ago the last command was issued.
C4_UnsolicitedReport ==
    [][ (PassStep /\ ~_commanded) =>
            UNCHANGED << _isjammed, _commanded, _target_state, _commanded_timer >> ]_vars

C4_Witness ==
    /\ lastOp.op = "report" /\ ~lastOp.pending
    /\ lastOp.cs # _current_state
    /\ _commanded_timer # None /\ clock > Deadline
    /\ _target_state # None /\ _current_state # _target_state
    /\ ~_isjammed

\* C5: once a jam is declared, a later report that shows the target state
\* clears it, without a new command.
C5_JamRecovery ==
    [][ ( /\ PassStep
          /\ _isjammed
          /\ _current_state' = _target_state ) => ~_isjammed' ]_vars

\* C6: a second command issued before any report replaces the target and
\* restarts the timeout at the time of the second call; the next pass is
\* decided against the second target and the second call's deadline only.
C6_Call ==
    \A b \in BOOLEAN :
        (_set_lock_state(b) /\ lastOp.op = "requestLock") =>
            /\ _target_state' = Some(b)
            /\ _commanded'
            /\ _commanded_timer' = Some(clock)

C6_Pass ==
    ( /\ PassStep
      /\ lastOp.op = "requestLock" /\ prevOp.op = "requestLock" ) =>
        IF _current_state' = Some(lastOp.arg)
        THEN ~_commanded' /\ ~_isjammed'
        ELSE IF clock > lastOp.at + JammedAfterSeconds
             THEN ~_commanded' /\ _isjammed'
             ELSE _commanded' /\ _isjammed' = _isjammed

C6_Supersession == [][C6_Call /\ C6_Pass]_vars

C6_Witness ==
    /\ prevOp.op = "requestLock" /\ lastOp.op = "requestLock"
    /\ prevOp.arg # lastOp.arg
    /\ prevOp.at < lastOp.at
    /\ _target_state = Some(lastOp.arg)
    /\ _commanded_timer = Some(lastOp.at)
    /\ clock > prevOp.at + JammedAfterSeconds

\* C7: the properties a command publishes already show locking when the
\* lock is unlocked and is asked to lock, and unlocking when it is locked
\* and is asked to unlock, also when no command was pending before.
C7_PublishedTransition ==
    [][ \A w \in BOOLEAN :
            _set_lock_state(w) =>
                /\ (_current_state = Some(FALSE) /\ w) => attrs'.is_locking
                /\ (_current_state = Some(TRUE) /\ ~w) => attrs'.is_unlocking ]_vars

\* C8: with keep-alive configured, the number of keep-alive writes issued
\* by any time is the number of whole intervals elapsed (the write due at
\* this very instant may still be about to happen), whatever commands and
\* reports happen meanwhile; each such write is of True to dp_id_nop.
KeepaliveDue == clock > 0 /\ clock % mapping.keep_connect_timer = 0

C8_Count ==
    (ctor = "done" /\ alive /\ mapping.keep_connect) =>
        \/ nop_writes = clock \div mapping.keep_connect_timer
        \/ KeepaliveDue /\ nop_writes = (clock \div mapping.keep_connect_timer) - 1

C8_KeepaliveCadence ==
    [][ /\ C8_Count'
        /\ nop_writes' # nop_writes =>
              /\ nop_writes' = nop_writes + 1
              /\ last_task' = Some([dp |-> dp_id_nop, value |-> TRUE]) ]_vars

C8_Witness ==
    /\ alive /\ mapping.keep_connect
    /\ mapping.keep_connect_timer > 1
    /\ nop_writes >= 3
    /\ lastOp.op = "report" /\ prevOp.op = "requestLock"
    /\ _commanded

\* C9: after the entity is torn down no keep-alive write is issued.
C9_NoWriteAfterTeardown ==
    [][ ~alive => nop_writes' = nop_writes ]_vars

\* C10: without keep-alive configured the keep-alive datapoint is never
\* created, no timer thread is started and nothing is written to dp_id_nop.
C10_KeepaliveOnlyWhenRequired ==
    ~mapping.keep_connect =>
        /\ datapoints[dp_id_nop] = None
        /\ _datapoint_nop = None
        /\ thread = "none"
        /\ nop_writes = 0
        /\ last_task # None => last_task[1].dp # dp_id_nop

C10_Witness ==
    /\ ~mapping.keep_connect
    /\ ctor = "done"
    /\ clock > MaxKeepConnectTimer
    /\ last_task # None
    /\ lastOp.op = "report"

\* C11: until the first command or report is processed the entity is in
\* its initial state: state unknown, no target, nothing pending, no time
\* of command, not jammed; the derived properties say unknown / false.
C11_InitialState ==
    lastOp.op = "none" =>
        /\ _current_state = None
        /\ _target_state = None
        /\ ~_commanded
        /\ _commanded_timer = None
        /\ ~_isjammed
        /\ is_locked(_current_state) = None
        /\ ~is_locking(_current_state, _target_state, _commanded)
        /\ ~is_unlocking(_current_state, _target_state, _commanded)
        /\ ~is_jammed(_isjammed)
        /\ attrs = [ is_locking |-> FALSE, is_unlocking |-> FALSE,
                     is_locked |-> None, is_jammed |-> FALSE ]

C11_Witness ==
    /\ lastOp.op = "none"
    /\ ctor = "done"
    /\ mapping.keep_connect
    /\ _datapoint_nop # None
    /\ clock = 0
    /\ attrs.is_locked = None

\* C12: the current state is unknown exactly as long as no report has been
\* processed; every pass sets it to unlocked for a raw true and locked for
\* a raw false; no other step changes it; once known it stays known.
C12_Known ==
    /\ (_current_state = None) <=> (datapoints[dp_id] = None)
    /\ (_current_state = None) => (lastOp.op # "report" /\ prevOp.op # "report")
    /\ lastOp.op = "report" => _current_state = Some(~lastOp.arg)

C12_Step ==
    /\ \A value \in BOOLEAN : Pass(value) => _current_state' = Some(~value)
    /\ ~PassStep => _current_state' = _current_state
    /\ _current_state # None => _current_state' # None

C12_StateFollowsReport == []C12_Known /\ [][C12_Step]_vars

C12_Witness ==
    /\ prevOp.op = "report" /\ prevOp.arg = TRUE
    /\ lastOp.op = "requestLock" /\ lastOp.arg = TRUE
    /\ _current_state = Some(FALSE)
    /\ datapoints[dp_id] = Some(TRUE)

\* C13: a jam is cleared only by a pass that runs for a pending command
\* and finds the target reached; a report without a pending command and a
\* command by itself leave the jam flag as it is.
C13_StickyJam ==
    [][ /\ (_isjammed /\ ~_isjammed') =>
              (PassStep /\ _commanded /\ _current_state' = _target_state)
        /\ (PassStep /\ ~_commanded) => _isjammed' = _isjammed
        /\ (\E w \in BOOLEAN : _set_lock_state(w)) => _isjammed' = _isjammed ]_vars

C13_Witness ==
    /\ _isjammed
    /\ ~_commanded
    /\ lastOp.op = "report" /\ ~lastOp.pending
    /\ _target_state # None /\ _current_state = _target_state

\* C14: time passing never changes the jam or pending flag; from a command
\* until the next report is processed the command stays pending and the
\* jam flag keeps its value, however late it gets.
C14_ReportDriven ==
    [][ /\ clock' # clock => UNCHANGED << _isjammed, _commanded >>
        /\ (lastOp.op = "requestLock" /\ lastOp'.op = "requestLock") =>
              (_commanded /\ _commanded' /\ _isjammed' = _isjammed) ]_vars

C14_Witness ==
    /\ lastOp.op = "requestLock"
    /\ clock > lastOp.at + JammedAfterSeconds
    /\ _current_state # None /\ _current_state # _target_state
    /\ _commanded
    /\ ~_isjammed
    /\ nop_writes > 0

\* C16: the Timer is never running while the keep-alive datapoint handle
\* is still unset.
C16_DatapointBeforeTimer ==
    thread # "none" => _datapoint_nop # None

\* C17: a command creates one write of True, to dp_id_lock when locking
\* and to dp_id_unlock when unlocking; no write of False and no write to
\* the status datapoint is ever created.
C17_Step ==
    /\ \A w \in BOOLEAN :
          _set_lock_state(w) =>
              last_task' = Some([ dp |-> IF w THEN dp_id_lock ELSE dp_id_unlock,
                                  value |-> TRUE ])
    /\ last_task' # last_task =>
          /\ last_task'[1].value = TRUE
          /\ last_task'[1].dp \in { dp_id_lock, dp_id_unlock, dp_id_nop }

C17_CommandWrites == [][C17_Step]_vars

C17_Witness ==
    /\ prevOp.op = "requestLock" /\ prevOp.arg = TRUE
    /\ lastOp.op = "requestLock" /\ lastOp.arg = FALSE
    /\ last_task = Some([ dp |-> dp_id_unlock, value |-> TRUE ])
    /\ datapoints[dp_id_lock] # None

\* C18: a command does not change the current state; a pass changes
\* neither the target nor the time of the command; a keep-alive write
\* changes none of the five lock fields.
C18_SingleWriter ==
    [][ /\ (\E w \in BOOLEAN : _set_lock_state(w)) => _current_state' = _current_state
        /\ PassStep => UNCHANGED << _target_state, _commanded_timer >>
        /\ nop_writes' # nop_writes => UNCHANGED lockVars ]_vars

C18_Witness ==
    /\ prevOp.op = "requestLock" /\ prevOp.cs = None
    /\ lastOp.op = "report" /\ lastOp.cs = None
    /\ _target_state = Some(prevOp.arg)
    /\ _commanded_timer = Some(prevOp.at)
    /\ nop_writes > 0

\* C19: a pending command always has a time of issue and a target; the
\* pending flag is raised only by a command, which records the current
\* time in the same step.
C19_Inv ==
    _commanded => (_commanded_timer # None /\ _target_state # None)

C19_Step ==
    (~_commanded /\ _commanded') =>
        /\ \E w \in BOOLEAN : _set_lock_state(w)
        /\ _commanded_timer' = Some(clock)

C19_PendingHasTimer == []C19_Inv /\ [][C19_Step]_vars

C19_Witness ==
    /\ _commanded
    /\ lastOp.op = "requestLock" /\ ~lastOp.pending
    /\ prevOp.op = "report" /\ prevOp.pending
    /\ clock > 0
    /\ _commanded_timer = Some(clock)

\* C15: no reconciliation pass runs while a command is partly applied,
\* that is while the target already holds the new intent and the pending
\* flag and the time of the command are still the old ones.
PartlyApplied ==
    /\ running # None
    /\ _target_state = Some(running[1].want_locked)

C15_Serialized == [][PassStep => ~PartlyApplied]_vars

C15_Witness ==
    /\ PartlyApplied
    /\ lastOp.op = "report"
    /\ ~_commanded
    /\ _commanded_timer # None /\ _commanded_timer[1] < clock
    /\ _target_state = Some(~prevOp.arg)
    /\ prevOp.op = "requestLock"

\* C20: while the entity lives, a command that is pending, with its
\* deadline inside the modelled time, does not stay pending for ever
\* (it is resolved, or replaced by a command with a later deadline); the pending flag is dropped only by a pass, either
\* one that finds the target reached (no jam) or one that finds it not
\* reached after the deadline (jam).
C20_Pending ==
    /\ _commanded
    /\ _commanded_timer # None
    /\ Deadline < MaxTime

C20_Live == C20_Pending ~> ~C20_Pending

C20_Step ==
    (_commanded /\ ~_commanded') =>
        /\ PassStep
        /\ \/ _current_state' = _target_state /\ ~_isjammed'
           \/ _current_state' # _target_state /\ clock > Deadline /\ _isjammed'

C20_EventuallyResolved == C20_Live /\ [][C20_Step]_vars

C20_Witness ==
    /\ ~_commanded
    /\ _isjammed
    /\ lastOp.op = "report" /\ lastOp.pending
    /\ prevOp.op = "requestLock"
    /\ prevOp.at + JammedAfterSeconds < MaxTime
    /\ _commanded_timer = Some(prevOp.at)

====
